---- MODULE Spec2Model ----
(***************************************************************************)
(* A model of the apartment-finder polling pipeline: main_loop.py drives   *)
(* Scraper.scrape, which fetches postings per area, skips the ones already *)
(* in the listings table, records the new ones, enriches them with a       *)
(* coordinate, filters them through the registered conditions and posts    *)
(* the accepted ones to Slack.                                             *)
(***************************************************************************)
EXTENDS Integers, Sequences, FiniteSets, TLC

\* ---------------------------------------------------------------- bounds
MaxCycles == 2
MaxBatch == 2
MaxConditions == 2
MaxText == 3
MaxStations == 2

\* ------------------------------------------------------- basic vocabulary
Runs == {1, 2}

\* Python's None for an optional value; a present value x is Some(x).
None == <<>>
Some(x) == <<x>>

NoExc == [type |-> "none", line |-> 0]
Exc(t, l) == [type |-> t, line |-> l]
Ok(v) == [exc |-> NoExc, val |-> v]
Raise(t, l) == [exc |-> Exc(t, l), val |-> None]

\* The areas of areas_filters_dict, in dict iteration order.
AreaList == <<"see">>

\* -------------------------------------------------- text helper functions
Digits == {"0", "1", "2", "3", "4", "5", "6", "7", "8", "9"}
Letters == {"a", "b", "c", "l", "A", "B"}
WordChars == Digits \cup Letters \cup {"_"}
WhiteSpace == {" "}

DigitVal(ch) ==
  CASE ch = "0" -> 0 [] ch = "1" -> 1 [] ch = "2" -> 2 [] ch = "3" -> 3
    [] ch = "4" -> 4 [] ch = "5" -> 5 [] ch = "6" -> 6 [] ch = "7" -> 7
    [] ch = "8" -> 8 [] ch = "9" -> 9

\* str.replace(old, ""): drop every occurrence of the character old.
RECURSIVE Replace(_, _)
Replace(s, old) ==
  IF s = <<>> THEN <<>>
  ELSE IF Head(s) = old THEN Replace(Tail(s), old)
  ELSE <<Head(s)>> \o Replace(Tail(s), old)

RECURSIVE DecimalValue(_)
DecimalValue(s) ==
  IF s = <<>> THEN 0
  ELSE 10 * DecimalValue(SubSeq(s, 1, Len(s) - 1)) + DigitVal(s[Len(s)])

\* float(text): a non-empty run of digits parses, anything else over this
\* alphabet is a ValueError.  float never raises OverflowError on a string.
Float(s) ==
  IF s # <<>> /\ \A i \in 1..Len(s) : s[i] \in Digits
  THEN Ok(DecimalValue(s))
  ELSE Raise("ValueError", 231)

\* dateutil.parser.parse: the timestamps it understands.
ParseableDatetimes == {"2018-06-01 12:00"}
ParseDatetime(s) ==
  IF s \in ParseableDatetimes THEN Ok(s) ELSE Raise("ValueError", 241)

\* ------------------------------------------------------- location_helper
\* re.split(r"[^\w\s']", s): a separator is any character that is not a
\* word character, whitespace or an apostrophe.
IsSeparator(ch) == ch \notin (WordChars \cup WhiteSpace \cup {"'"})

RECURSIVE SplitAcc(_, _)
SplitAcc(s, acc) ==
  IF s = <<>> THEN <<acc>>
  ELSE IF IsSeparator(Head(s)) THEN <<acc>> \o SplitAcc(Tail(s), <<>>)
  ELSE SplitAcc(Tail(s), Append(acc, Head(s)))

ReSplit(s) == SplitAcc(s, <<>>)

RECURSIVE LStrip(_)
LStrip(s) ==
  IF s # <<>> /\ Head(s) \in WhiteSpace THEN LStrip(Tail(s)) ELSE s

RECURSIVE RStrip(_)
RStrip(s) ==
  IF s # <<>> /\ s[Len(s)] \in WhiteSpace
  THEN RStrip(SubSeq(s, 1, Len(s) - 1)) ELSE s

Strip(s) == RStrip(LStrip(s))

\* str has no method tolower: the call raises AttributeError.
ToLower(s) == Raise("AttributeError", 93)

\* The filtering loop of parse_locations over the raw fragments.
RECURSIVE FilterLocations(_, _)
FilterLocations(raw, locations) ==
  IF raw = <<>> THEN Ok(locations)
  ELSE LET location == Strip(Head(raw)) IN
    IF location # <<>>
    THEN LET low == ToLower(location) IN
      IF low.exc # NoExc THEN low
      ELSE FilterLocations(Tail(raw), Append(locations, low.val))
    ELSE FilterLocations(Tail(raw), locations)

\* parse_locations(locations_str); the argument is never None here because
\* the caller tests it, but the guard is the function's own.
ParseLocations(locations_str) ==
  IF locations_str = None \/ locations_str = Some(<<>>) THEN Ok(<<>>)
  ELSE FilterLocations(ReSplit(locations_str[1]), <<>>)

\* get_geocode: the geocoding service's answer for a fragment, (0, 0) when
\* the fragment is empty or the service does not resolve it.
KnownPlaces == {<<"a">>}
GetGeocode(location) ==
  IF location = <<>> THEN <<0, 0>>
  ELSE IF location \in KnownPlaces THEN <<46, -120>>
  ELSE <<0, 0>>

\* ------------------------------------------------------------- postings
\* The postings the listing source can return.  Each is the dict that
\* python-craigslist yields: id, url, geotag, where, price, datetime.
GoodDate == "2018-06-01 12:00"
Posting(id, geotag, where, price, datetime) ==
  [id |-> id, url |-> id, geotag |-> geotag, where |-> where,
   price |-> price, datetime |-> datetime, area |-> "", coord |-> None]

Catalog ==
  { Posting(1, <<47, -122>>, Some(<<"a">>), Some(<<"$", "7", "5">>), GoodDate),
    Posting(2, <<48, -121>>, None, Some(<<"8", "0">>), GoodDate),
    Posting(3, None, None, Some(<<"$", "6", "0">>), GoodDate),
    Posting(4, None, Some(<<",", " ">>), Some(<<"$", "6", "5">>), GoodDate),
    Posting(5, None, Some(<<"A", ",", " ", "b">>), Some(<<"$", "7", "0">>), GoodDate),
    Posting(6, <<47, -122>>, Some(<<"a">>), Some(<<"c", "a", "l", "l">>), GoodDate),
    Posting(7, <<47, -122>>, Some(<<"a">>), Some(<<"$", "5", "0">>), "soon") }

Ids == {p.id : p \in Catalog} \cup {9}

\* What get_results can return when the source holds the postings in held:
\* any sequence of at most MaxBatch of them.
Batches(held) == UNION {[1..n -> held] : n \in 0..MaxBatch}

\* The postings the source holds while one process polls it: two that pass
\* through, one that fails after it is recorded, one that fails before.
PipelineCatalog == {p \in Catalog : p.id \in {1, 2, 3, 6}}

\* The postings the source holds when two processes poll it.
RaceCatalog == {p \in Catalog : p.id \in {1, 6}}

\* The listings update_geographic_information is called with directly: any
\* geotag of GeotagInputs with any location text of at most MaxText
\* characters, or none.
TextAlphabet == {"a", "B", ",", " "}
Texts == UNION {[1..n -> TextAlphabet] : n \in 0..MaxText}
GeotagInputs == {None, <<47, -122>>, <<0, 0>>}
EnrichInputs ==
  { Posting(9, g, w, Some(<<"$", "9">>), GoodDate) :
      g \in GeotagInputs, w \in {None} \cup {Some(t) : t \in Texts} }

\* ------------------------------------------------------------ conditions
\* Values handed to add_condition.  cls is the Python class of the value;
\* a Condition subclass other than LocationCondition accepts the postings
\* whose id is in accepts.
CondValue(cls, accepts) == [cls |-> cls, accepts |-> accepts]
LocationCondition == CondValue("LocationCondition", Ids)
ConditionClasses == {"LocationCondition", "Condition"}
AddArguments ==
  { CondValue("NoneType", {}), CondValue("str", {}), LocationCondition,
    CondValue("Condition", {1}) }

IsInstanceOfCondition(c) == c.cls \in ConditionClasses

\* Condition.check(listing)
Check(c, listing) ==
  IF c.cls = "LocationCondition" THEN TRUE ELSE listing.id \in c.accepts

\* ------------------------------------------------------------------ state
VARIABLES
  db,          \* the committed rows of the listings table
  conditions,  \* Scraper.conditions
  pc,          \* where each run of main_loop is
  cycle,       \* how many scrape cycles each run has started
  sessionOk,   \* FALSE once the run's session needs a rollback
  areaIdx,     \* index in AreaList of the area being scraped
  listings,    \* scrape_area: postings of the batch not yet visited
  cur,         \* scrape_area: the posting being processed
  results,     \* scrape_area: results
  allResults,  \* scrape: all_results, then the part still to post
  exc,         \* the exception propagating out of the run's scrape()
  addLog,      \* history: the last add_condition call of the setup
  recordedAt,  \* history: per id, the <<run, cycle>> pairs that committed it
  enrichedAt,  \* history: per id, the <<run, cycle>> pairs that enriched it
  checkedAt,   \* history: per id, the <<run, cycle>> pairs that checked it
  notified,    \* history: per id, the <<run, cycle>> of each Slack post
  lastEnrich,  \* history: per run, the current posting's enrichment
  lastCheck,   \* history: per run, the current posting's condition loop
  source,      \* the postings the listing source holds
  lastCall     \* history: the last direct call of a location_helper function

vars == <<db, conditions, pc, cycle, sessionOk, areaIdx, listings, cur,
          results, allResults, exc, addLog, recordedAt, enrichedAt,
          checkedAt, notified, lastEnrich, lastCheck, source, lastCall>>


\* ------------------------------------------------------------- the store
\* session.query(Listing).filter_by(cl_id=id).first() is not None
HasSeen(rows, id) == \E row \in rows : row.cl_id = id

\* The unique constraints of the listings table (link and cl_id).
UniqueViolation(rows, entity) ==
  \E row \in rows : row.cl_id = entity.cl_id \/ row.link = entity.link

\* session.add(entity); session.commit() on a table that accepts the row.
CommitOverwrite(rows, entity) == {entity}
CommitLost(rows, entity) == rows
Commit(rows, entity) == rows \cup {entity}

\* Lines 117-118: an existing row skips the posting, otherwise it goes on
\* to be created and saved.
LookupNextNoSkip(existing) == IF existing THEN "enrich" ELSE "create"
LookupNext(existing) == IF existing THEN "loop" ELSE "create"

\* --------------------------------------------------------- Scraper helpers
\* Scraper._create_listing_entity; listing is never None here.
CreateListingEntity(listing) ==
  LET has_geotag == listing.geotag # None
      lat == IF has_geotag THEN listing.geotag[1] ELSE 0
      lon == IF has_geotag THEN listing.geotag[2] ELSE 0
      price == IF listing.price = None
               THEN Raise("AttributeError", 231)
               ELSE Float(Replace(listing.price[1], "$"))
      created == ParseDatetime(listing.datetime)
  IN IF price.exc # NoExc THEN price
     ELSE IF created.exc # NoExc THEN created
     ELSE Ok([cl_id |-> listing.id, link |-> listing.url, lat |-> lat,
              lon |-> lon, price |-> price.val, area |-> "Seattle"])

\* The averaging loop of update_geographic_information: one get_geocode
\* call per location, summed.
RECURSIVE SumGeocodes(_)
SumGeocodes(locations) ==
  IF locations = <<>> THEN <<0, 0>>
  ELSE LET rest == SumGeocodes(Tail(locations))
           g == GetGeocode(Head(locations))
       IN <<g[1] + rest[1], g[2] + rest[2]>>

\* The coordinate the geotag branch writes to the listing.
GeotagCoordSwapped(geotag) == <<geotag[2], geotag[1]>>
GeotagCoord(geotag) == <<geotag[1], geotag[2]>>

\* Scraper.update_geographic_information.  The result carries the updated
\* listing and the sequence of get_geocode arguments.  The listing is a
\* non-empty dict, so the validation at lines 182-184 never returns.
UpdateGeographicInformation(listing) ==
  IF listing.geotag # None
  THEN [exc |-> NoExc, calls |-> <<>>,
        val |-> [listing EXCEPT !.coord = GeotagCoord(listing.geotag)]]
  ELSE LET parsed == IF listing.where # None
                     THEN ParseLocations(listing.where) ELSE Ok(<<>>)
       IN IF parsed.exc # NoExc
          THEN [exc |-> parsed.exc, calls |-> <<>>, val |-> listing]
          ELSE LET locations == parsed.val
                   sum == SumGeocodes(locations)
                   count == Len(locations)
               IN IF count = 0
                  THEN [exc |-> Exc("ZeroDivisionError", 206),
                        calls |-> locations, val |-> listing]
                  ELSE [exc |-> NoExc, calls |-> locations,
                        val |-> [listing EXCEPT
                                   !.coord = <<sum[1] \div count,
                                               sum[2] \div count>>]]

\* The condition loop of scrape_area, lines 129-137, from condition i on:
\* the indices evaluated and whether the listing is good.
RECURSIVE EvaluateFromNoBreak(_, _, _)
EvaluateFromNoBreak(conds, listing, i) ==
  IF i > Len(conds) THEN [evals |-> <<>>, good |-> TRUE]
  ELSE LET rest == EvaluateFromNoBreak(conds, listing, i + 1)
       IN [evals |-> <<i>> \o rest.evals,
           good |-> rest.good /\ Check(conds[i], listing)]

RECURSIVE EvaluateFrom(_, _, _)
EvaluateFrom(conds, listing, i) ==
  IF i > Len(conds) THEN [evals |-> <<>>, good |-> TRUE]
  ELSE IF Check(conds[i], listing)
  THEN LET rest == EvaluateFrom(conds, listing, i + 1)
       IN [evals |-> <<i>> \o rest.evals, good |-> rest.good]
  ELSE [evals |-> <<i>>, good |-> FALSE]

Evaluate(conds, listing) == EvaluateFrom(conds, listing, 1)

\* add_condition's validation, line 75.
IsValidConditionNoneOnly(c) == ~(c.cls = "NoneType")
IsValidCondition(c) ==
  ~(c.cls = "NoneType" \/ ~IsInstanceOfCondition(c))

\* ------------------------------------------------- points of interest
\* coord_distance for two points on one meridian, in whole kilometres: the
\* haversine formula reduces to 6367 * radians(|lat1 - lat2|), 111 km per
\* degree.  Every station and geotag used here has longitude 0.
KmPerDegree == 111
Abs(x) == IF x < 0 THEN -x ELSE x
CoordDistance(lat1, lon1, lat2, lon2) == KmPerDegree * Abs(lat1 - lat2)

\* in_box(coords, box): box[0] is the first corner, box[1] the second.
InBoxInclusive(coords, box) ==
  /\ box[1][1] <= coords[1] /\ coords[1] <= box[2][1]
  /\ box[2][2] <= coords[2] /\ coords[2] <= box[1][2]
InBox(coords, box) ==
  /\ box[1][1] < coords[1] /\ coords[1] < box[2][1]
  /\ box[2][2] < coords[2] /\ coords[2] < box[1][2]

\* str.lower() over the alphabet.
LowerChar(ch) ==
  CASE ch = "A" -> "a" [] ch = "B" -> "b" [] OTHER -> ch
Lower(s) == [i \in 1..Len(s) |-> LowerChar(s[i])]

\* hood in text
IsSubstring(hood, text) ==
  \E i \in 0..(Len(text) - Len(hood)) :
    \A j \in 1..Len(hood) : text[i + j] = hood[j]

\* The box loop of find_points_of_interest, lines 140-143; boxes is the
\* sequence of (name, box) items of settings.BOXES in iteration order.
RECURSIVE BoxLoop(_, _, _)
BoxLoop(boxes, geotag, st) ==
  IF boxes = <<>> THEN st
  ELSE BoxLoop(Tail(boxes), geotag,
         IF InBox(geotag, Head(boxes).coords)
         THEN [area |-> Head(boxes).name, area_found |-> TRUE]
         ELSE st)

\* The station loop, lines 146-153.  min_dist is tested but never assigned.
RECURSIVE StationLoop(_, _, _, _)
StationLoop(stations, geotag, maxDist, st) ==
  IF stations = <<>> THEN st
  ELSE LET station == Head(stations)
           dist == CoordDistance(station.coords[1], station.coords[2],
                                 geotag[1], geotag[2])
           closer == st.min_dist = None \/ dist < st.min_dist[1]
           st1 == IF closer /\ dist < maxDist
                  THEN [st EXCEPT !.bart = station.name, !.near_bart = TRUE]
                  ELSE st
           st2 == IF closer THEN [st1 EXCEPT !.bart_dist = Some(dist)]
                  ELSE st1
       IN StationLoop(Tail(stations), geotag, maxDist, st2)

\* The neighborhood loop, lines 158-160, over the lower-cased location.
RECURSIVE HoodLoopBreak(_, _, _)
HoodLoopBreak(hoods, text, area) ==
  IF hoods = <<>> THEN area
  ELSE IF IsSubstring(Head(hoods), text) THEN Head(hoods)
  ELSE HoodLoopBreak(Tail(hoods), text, area)
RECURSIVE HoodLoop(_, _, _)
HoodLoop(hoods, text, area) ==
  IF hoods = <<>> THEN area
  ELSE HoodLoop(Tail(hoods), text,
         IF IsSubstring(Head(hoods), text) THEN Head(hoods) ELSE area)

\* find_points_of_interest(geotag, location) under the settings cfg.
\* bart_dist is None for the initial "N/A".
FindPointsOfInterest(geotag, location, cfg) ==
  LET boxed == BoxLoop(cfg.boxes, geotag, [area |-> <<>>, area_found |-> FALSE])
      transit == StationLoop(cfg.stations, geotag, cfg.maxDist,
                   [min_dist |-> None, near_bart |-> FALSE,
                    bart_dist |-> None, bart |-> <<>>])
      area == IF Len(boxed.area) = 0
              THEN HoodLoop(cfg.hoods, Lower(location), boxed.area)
              ELSE boxed.area
  IN [area_found |-> boxed.area_found, area |-> area,
      near_bart |-> transit.near_bart, bart_dist |-> transit.bart_dist,
      bart |-> transit.bart]

\* The arguments and settings the location_helper functions are called with.
\* Orders(S, n): the sequences of at most n distinct members of S, the
\* iteration orders of a dict or list built from them.
Orders(S, n) ==
  {q \in UNION {[1..k -> S] : k \in 0..n} :
     \A i, j \in 1..Len(q) : i # j => q[i] # q[j]}

Grid == 0..2
GridPoints == Grid \X Grid
GridBoxes == GridPoints \X GridPoints

StationPool ==
  { [name |-> <<"a">>, coords |-> <<0, 0>>],
    [name |-> <<"b">>, coords |-> <<1, 0>>],
    [name |-> <<"c">>, coords |-> <<3, 0>>] }
BoxPool ==
  { [name |-> <<"c">>, coords |-> <<<<0, 1>>, <<2, -1>>>>],
    [name |-> <<"l">>, coords |-> <<<<0, 1>>, <<3, -1>>>>] }
HoodPool == {<<"a">>, <<"b">>}
MaxTransitDists == {2, 150}
Settings ==
  [boxes : Orders(BoxPool, Cardinality(BoxPool)),
   stations : Orders(StationPool, MaxStations),
   maxDist : MaxTransitDists,
   hoods : Orders(HoodPool, Cardinality(HoodPool))]
PoiGeotags == {<<lat, 0>> : lat \in Grid}
PoiLocations == UNION {[1..n -> {"a", "B"}] : n \in 0..MaxText}

NoPoi ==
  [area_found |-> FALSE, area |-> <<>>, near_bart |-> FALSE,
   bart_dist |-> None, bart |-> <<>>]
InBoxCalls ==
  [fn : {"in_box"}, coords : GridPoints, box : GridBoxes,
   returned : {FALSE}, out : {FALSE}]
PoiCalls ==
  [fn : {"find_points_of_interest"}, geotag : PoiGeotags,
   location : PoiLocations, cfg : Settings, returned : {FALSE},
   out : {NoPoi}]

\* ------------------------------------------------------------------- Init
NoCall == [fn |-> "none"]
NoPosting == Posting(0, None, None, None, "")
NoEnrich == [id |-> 0, geotag |-> None, where |-> None, calls |-> <<>>,
             coord |-> None, exc |-> NoExc]
NoCheck == [id |-> 0, evals |-> <<>>, good |-> FALSE, conds |-> <<>>]
NoAdd == [calls |-> 0, arg |-> CondValue("NoneType", {}), before |-> <<>>]

InitCommon ==
  /\ db = {}
  /\ conditions = <<>>
  /\ cycle = [r \in Runs |-> 0]
  /\ sessionOk = [r \in Runs |-> TRUE]
  /\ areaIdx = [r \in Runs |-> 0]
  /\ listings = [r \in Runs |-> <<>>]
  /\ cur = [r \in Runs |-> NoPosting]
  /\ results = [r \in Runs |-> <<>>]
  /\ allResults = [r \in Runs |-> <<>>]
  /\ exc = [r \in Runs |-> NoExc]
  /\ addLog = NoAdd
  /\ recordedAt = [i \in Ids |-> {}]
  /\ enrichedAt = [i \in Ids |-> {}]
  /\ checkedAt = [i \in Ids |-> {}]
  /\ notified = [i \in Ids |-> <<>>]
  /\ lastEnrich = [r \in Runs |-> NoEnrich]
  /\ lastCheck = [r \in Runs |-> NoCheck]

\* One process running main_loop.py.
Init ==
  /\ InitCommon
  /\ lastCall = NoCall
  /\ source = PipelineCatalog
  /\ pc = [r \in Runs |-> IF r = 1 THEN "setup" ELSE "off"]

\* Two processes running main_loop.py against the same listings.db.
InitRace ==
  /\ InitCommon
  /\ lastCall = NoCall
  /\ source = RaceCatalog
  /\ pc = [r \in Runs |-> "setup"]

\* update_geographic_information called on its own, outside a cycle.
InitCalls ==
  /\ InitCommon
  /\ lastCall = NoCall
  /\ source = {}
  /\ pc = [r \in Runs |-> "off"]

\* ---------------------------------------------------------------- actions
Here(r) == <<r, cycle[r]>>

\* Scraper.add_condition(c), called before the polling loop starts.
AddCondition(c) ==
  /\ \A r \in Runs : pc[r] \in {"setup", "off"}
  /\ addLog.calls < MaxConditions
  /\ conditions' = IF IsValidCondition(c) THEN Append(conditions, c)
                   ELSE conditions
  /\ addLog' = [calls |-> addLog.calls + 1, arg |-> c, before |-> conditions]
  /\ UNCHANGED <<db, pc, cycle, sessionOk, areaIdx, listings, cur, results,
                 allResults, exc, recordedAt, enrichedAt, checkedAt, notified,
                 lastEnrich, lastCheck, source, lastCall>>

\* main_loop.py line 30-33: a cycle starts, scrape() begins with the first
\* area.  No add_condition call is left to look back at.
StartCycle(r) ==
  /\ pc[r] \in {"setup", "idle"}
  /\ cycle[r] < MaxCycles
  /\ cycle' = [cycle EXCEPT ![r] = @ + 1]
  /\ pc' = [pc EXCEPT ![r] = "fetch"]
  /\ areaIdx' = [areaIdx EXCEPT ![r] = 1]
  /\ allResults' = [allResults EXCEPT ![r] = <<>>]
  /\ exc' = [exc EXCEPT ![r] = NoExc]
  /\ addLog' = NoAdd
  /\ UNCHANGED <<db, conditions, sessionOk, listings, cur, results,
                 recordedAt, enrichedAt, checkedAt, notified, lastEnrich,
                 lastCheck, source, lastCall>>

\* scrape_area lines 106-109: the listing source returns a batch.
Fetch(r) ==
  /\ pc[r] = "fetch"
  /\ \E batch \in Batches(source) : listings' = [listings EXCEPT ![r] = batch]
  /\ results' = [results EXCEPT ![r] = <<>>]
  /\ pc' = [pc EXCEPT ![r] = "loop"]
  /\ UNCHANGED <<db, conditions, cycle, sessionOk, areaIdx, cur, allResults,
                 exc, addLog, recordedAt, enrichedAt, checkedAt, notified,
                 lastEnrich, lastCheck, source, lastCall>>

\* scrape_area lines 114-118: take the next posting and look it up.  A
\* session left in a failed transaction raises on the query.
Lookup(r) ==
  /\ pc[r] = "loop"
  /\ listings[r] # <<>>
  /\ LET listing == Head(listings[r]) IN
       /\ listings' = [listings EXCEPT ![r] = Tail(@)]
       /\ IF ~sessionOk[r]
          THEN /\ pc' = [pc EXCEPT ![r] = "raised"]
               /\ exc' = [exc EXCEPT ![r] = Exc("InvalidRequestError", 116)]
               /\ cur' = cur
          ELSE /\ pc' = [pc EXCEPT ![r] = LookupNext(HasSeen(db, listing.id))]
               /\ exc' = exc
               /\ cur' = [cur EXCEPT ![r] = listing]
  /\ lastEnrich' = [lastEnrich EXCEPT ![r] = NoEnrich]
  /\ lastCheck' = [lastCheck EXCEPT ![r] = NoCheck]
  /\ UNCHANGED <<db, conditions, cycle, sessionOk, areaIdx, results,
                 allResults, addLog, recordedAt, enrichedAt, checkedAt,
                 notified, source, lastCall>>

\* scrape_area lines 121-123: build the entity, add it and commit.
Record(r) ==
  /\ pc[r] = "create"
  /\ LET made == CreateListingEntity(cur[r]) IN
       IF made.exc # NoExc
       THEN /\ pc' = [pc EXCEPT ![r] = "raised"]
            /\ exc' = [exc EXCEPT ![r] = made.exc]
            /\ UNCHANGED <<db, sessionOk, cur, recordedAt>>
       ELSE IF UniqueViolation(db, made.val)
       THEN /\ pc' = [pc EXCEPT ![r] = "raised"]
            /\ exc' = [exc EXCEPT ![r] = Exc("IntegrityError", 123)]
            /\ sessionOk' = [sessionOk EXCEPT ![r] = FALSE]
            /\ cur' = [cur EXCEPT ![r].area = "Seattle"]
            /\ UNCHANGED <<db, recordedAt>>
       ELSE /\ db' = Commit(db, made.val)
            /\ recordedAt' = [recordedAt EXCEPT ![cur[r].id] = @ \cup {Here(r)}]
            /\ cur' = [cur EXCEPT ![r].area = "Seattle"]
            /\ pc' = [pc EXCEPT ![r] = "enrich"]
            /\ UNCHANGED <<sessionOk, exc>>
  /\ UNCHANGED <<conditions, cycle, areaIdx, listings, results, allResults,
                 addLog, enrichedAt, checkedAt, notified, lastEnrich,
                 lastCheck, source, lastCall>>

\* scrape_area line 126: update_geographic_information(listing).
Enrich(r) ==
  /\ pc[r] = "enrich"
  /\ LET out == UpdateGeographicInformation(cur[r]) IN
       /\ enrichedAt' = [enrichedAt EXCEPT ![cur[r].id] = @ \cup {Here(r)}]
       /\ lastEnrich' = [lastEnrich EXCEPT ![r] =
            [id |-> cur[r].id, geotag |-> cur[r].geotag,
             where |-> cur[r].where, calls |-> out.calls,
             coord |-> out.val.coord, exc |-> out.exc]]
       /\ cur' = [cur EXCEPT ![r] = out.val]
       /\ exc' = [exc EXCEPT ![r] = out.exc]
       /\ pc' = [pc EXCEPT ![r] = IF out.exc # NoExc THEN "raised" ELSE "check"]
  /\ UNCHANGED <<db, conditions, cycle, sessionOk, areaIdx, listings, results,
                 allResults, addLog, recordedAt, checkedAt, notified,
                 lastCheck, source, lastCall>>

\* scrape_area lines 129-144: the condition loop and the append.
CheckConditions(r) ==
  /\ pc[r] = "check"
  /\ LET out == Evaluate(conditions, cur[r]) IN
       /\ lastCheck' = [lastCheck EXCEPT ![r] =
            [id |-> cur[r].id, evals |-> out.evals, good |-> out.good,
             conds |-> conditions]]
       /\ checkedAt' = IF out.evals # <<>>
                       THEN [checkedAt EXCEPT ![cur[r].id] = @ \cup {Here(r)}]
                       ELSE checkedAt
       /\ results' = IF out.good
                     THEN [results EXCEPT ![r] = Append(@, cur[r])]
                     ELSE results
  /\ pc' = [pc EXCEPT ![r] = "loop"]
  /\ UNCHANGED <<db, conditions, cycle, sessionOk, areaIdx, listings, cur,
                 allResults, exc, addLog, recordedAt, enrichedAt, notified,
                 lastEnrich, source, lastCall>>

\* scrape_area line 147 and scrape lines 89-92: the area's results join
\* all_results and the next area, if any, is scraped.
ReturnArea(r) ==
  /\ pc[r] = "loop"
  /\ listings[r] = <<>>
  /\ allResults' = [allResults EXCEPT ![r] = @ \o results[r]]
  /\ results' = [results EXCEPT ![r] = <<>>]
  /\ IF areaIdx[r] < Len(AreaList)
     THEN /\ areaIdx' = [areaIdx EXCEPT ![r] = @ + 1]
          /\ pc' = [pc EXCEPT ![r] = "fetch"]
     ELSE /\ areaIdx' = areaIdx
          /\ pc' = [pc EXCEPT ![r] = "post"]
  /\ cur' = [cur EXCEPT ![r] = NoPosting]
  /\ lastEnrich' = [lastEnrich EXCEPT ![r] = NoEnrich]
  /\ lastCheck' = [lastCheck EXCEPT ![r] = NoCheck]
  /\ UNCHANGED <<db, conditions, cycle, sessionOk, listings, exc, addLog,
                 recordedAt, enrichedAt, checkedAt, notified, source, lastCall>>

\* scrape lines 95-96: post_listing_to_slack for the next result.  The call
\* is made whether or not Slack's API then fails.
PostListingToSlack(r) ==
  /\ pc[r] = "post"
  /\ allResults[r] # <<>>
  /\ LET result == Head(allResults[r]) IN
       notified' = [notified EXCEPT ![result.id] = Append(@, Here(r))]
  /\ allResults' = [allResults EXCEPT ![r] = Tail(@)]
  /\ \E delivered \in BOOLEAN :
       IF delivered
       THEN UNCHANGED <<pc, exc>>
       ELSE /\ pc' = [pc EXCEPT ![r] = "raised"]
            /\ exc' = [exc EXCEPT ![r] = Exc("ConnectionError", 168)]
  /\ UNCHANGED <<db, conditions, cycle, sessionOk, areaIdx, listings, cur,
                 results, addLog, recordedAt, enrichedAt, checkedAt,
                 lastEnrich, lastCheck, source, lastCall>>

\* main_loop.py lines 40-42: scrape() returned; sleep until the next cycle.
FinishCycle(r) ==
  /\ pc[r] = "post"
  /\ allResults[r] = <<>>
  /\ pc' = [pc EXCEPT ![r] = "idle"]
  /\ areaIdx' = [areaIdx EXCEPT ![r] = 0]
  /\ UNCHANGED <<db, conditions, cycle, sessionOk, listings, cur, results,
                 allResults, exc, addLog, recordedAt, enrichedAt, checkedAt,
                 notified, lastEnrich, lastCheck, source, lastCall>>

\* main_loop.py lines 37-39 and 42: the exception is printed and the loop
\* sleeps until the next cycle.  The frames of scrape and scrape_area, and
\* their locals with them, are gone.
HandleException(r) ==
  /\ pc[r] = "raised"
  /\ pc' = [pc EXCEPT ![r] = "idle"]
  /\ cur' = [cur EXCEPT ![r] = NoPosting]
  /\ areaIdx' = [areaIdx EXCEPT ![r] = 0]
  /\ listings' = [listings EXCEPT ![r] = <<>>]
  /\ results' = [results EXCEPT ![r] = <<>>]
  /\ allResults' = [allResults EXCEPT ![r] = <<>>]
  /\ exc' = [exc EXCEPT ![r] = NoExc]
  /\ lastEnrich' = [lastEnrich EXCEPT ![r] = NoEnrich]
  /\ lastCheck' = [lastCheck EXCEPT ![r] = NoCheck]
  /\ UNCHANGED <<db, conditions, cycle, sessionOk, addLog, recordedAt,
                 enrichedAt, checkedAt, notified, source, lastCall>>

\* main_loop.py lines 34-36: a KeyboardInterrupt during the cycle is caught
\* and the process exits; during the sleep at line 42 it is not caught and
\* ends the process as well.
KeyboardInterrupt(r) ==
  /\ pc[r] \notin {"off", "setup", "exited"}
  /\ pc' = [pc EXCEPT ![r] = "exited"]
  /\ cur' = [cur EXCEPT ![r] = NoPosting]
  /\ areaIdx' = [areaIdx EXCEPT ![r] = 0]
  /\ listings' = [listings EXCEPT ![r] = <<>>]
  /\ results' = [results EXCEPT ![r] = <<>>]
  /\ allResults' = [allResults EXCEPT ![r] = <<>>]
  /\ exc' = [exc EXCEPT ![r] = NoExc]
  /\ lastEnrich' = [lastEnrich EXCEPT ![r] = NoEnrich]
  /\ lastCheck' = [lastCheck EXCEPT ![r] = NoCheck]
  /\ UNCHANGED <<db, conditions, cycle, sessionOk, addLog, recordedAt,
                 enrichedAt, checkedAt, notified, source, lastCall>>

\* A direct call of Scraper.update_geographic_information(listing).
CallUpdateGeographicInformation(listing) ==
  /\ \A r \in Runs : pc[r] = "off"
  /\ LET out == UpdateGeographicInformation(listing) IN
       lastEnrich' = [lastEnrich EXCEPT ![1] =
         [id |-> listing.id, geotag |-> listing.geotag,
          where |-> listing.where, calls |-> out.calls,
          coord |-> out.val.coord, exc |-> out.exc]]
  /\ UNCHANGED <<db, conditions, pc, cycle, sessionOk, areaIdx, listings, cur,
                 results, allResults, exc, addLog, recordedAt, enrichedAt,
                 checkedAt, notified, lastCheck, source, lastCall>>

Next ==
  \/ \E c \in AddArguments : AddCondition(c)
  \/ \E r \in Runs :
       \/ StartCycle(r)
       \/ Fetch(r)
       \/ Lookup(r)
       \/ Record(r)
       \/ Enrich(r)
       \/ CheckConditions(r)
       \/ ReturnArea(r)
       \/ PostListingToSlack(r)
       \/ FinishCycle(r)
       \/ HandleException(r)
       \/ KeyboardInterrupt(r)

Spec == Init /\ [][Next]_vars

SpecRace == InitRace /\ [][Next]_vars

\* A direct call of location_helper.in_box(coords, box).
CallInBox ==
  /\ lastCall.fn = "in_box" /\ ~lastCall.returned
  /\ lastCall' = [lastCall EXCEPT !.returned = TRUE,
                                  !.out = InBox(lastCall.coords, lastCall.box)]
  /\ UNCHANGED <<db, conditions, pc, cycle, sessionOk, areaIdx, listings, cur,
                 results, allResults, exc, addLog, recordedAt, enrichedAt,
                 checkedAt, notified, lastEnrich, lastCheck, source>>

\* A direct call of location_helper.find_points_of_interest(geotag, location).
CallFindPointsOfInterest ==
  /\ lastCall.fn = "find_points_of_interest" /\ ~lastCall.returned
  /\ lastCall' = [lastCall EXCEPT
       !.returned = TRUE,
       !.out = FindPointsOfInterest(lastCall.geotag, lastCall.location,
                                    lastCall.cfg)]
  /\ UNCHANGED <<db, conditions, pc, cycle, sessionOk, areaIdx, listings, cur,
                 results, allResults, exc, addLog, recordedAt, enrichedAt,
                 checkedAt, notified, lastEnrich, lastCheck, source>>

NextCalls == \E listing \in EnrichInputs : CallUpdateGeographicInformation(listing)

SpecCalls == InitCalls /\ [][NextCalls]_vars

\* Direct calls of the location_helper functions, one call per behaviour.
InitHelper ==
  /\ InitCommon
  /\ source = {}
  /\ pc = [r \in Runs |-> "off"]
  /\ \/ lastCall \in InBoxCalls
     \/ lastCall \in PoiCalls

NextHelper == CallInBox \/ CallFindPointsOfInterest

SpecHelper == InitHelper /\ [][NextHelper]_vars


\* ----------------------------------------------------------------- claims
Processed(i) == enrichedAt[i] \cup checkedAt[i]

AllAccept(conds, listing) ==
  \A k \in 1..Len(conds) : Check(conds[k], listing)

\* C1: a posting whose identifier is already in the listings table is never
\* passed to update_geographic_information nor to a condition's check when a
\* later fetch returns it again: every enrichment or check of an identifier
\* happens in the one cycle that recorded it.
C1_SeenNeverReprocessed ==
  \A i \in Ids : \A h \in Processed(i) : recordedAt[i] = {h}

\* A posting recorded and enriched in cycle 1 came back in cycle 2 and was
\* skipped by the lookup.
C1_Witness ==
  \E i \in Ids :
    /\ pc[1] = "loop" /\ cycle[1] = 2 /\ cur[1].id = i
    /\ recordedAt[i] = {<<1, 1>>} /\ enrichedAt[i] = {<<1, 1>>}

\* C2: an identifier is posted to Slack at most once over all cycles, and
\* only in the cycle that recorded it.
C2_NotifiedAtMostOnce ==
  \A i \in Ids :
    /\ Len(notified[i]) <= 1
    /\ \A k \in 1..Len(notified[i]) : recordedAt[i] = {notified[i][k]}

\* A posting notified in cycle 1 was the last of the batch fetched in cycle
\* 2 and was skipped there without a second notification.
C2_Witness ==
  \E i \in Ids :
    /\ pc[1] = "loop" /\ cycle[1] = 2 /\ listings[1] = <<>>
    /\ cur[1].id = i /\ notified[i] = << <<1, 1>> >>

\* C3: a new posting's row is committed before the posting is enriched or
\* checked, and the row stays whether the conditions accept or reject it; a
\* rejected posting is not processed again.
C3_RecordedBeforeProcessing ==
  /\ \A r \in Runs : pc[r] \in {"enrich", "check"} => HasSeen(db, cur[r].id)
  /\ \A i \in Ids : Processed(i) # {} => HasSeen(db, i)
  /\ \A p \in Catalog :
       (checkedAt[p.id] # {} /\ ~AllAccept(conditions, p)) =>
         /\ HasSeen(db, p.id)
         /\ Cardinality(enrichedAt[p.id]) = 1

\* A posting the conditions rejected in cycle 1 is still in the table when
\* cycle 2 fetches it again, and the lookup skips it.
C3_Witness ==
  \E r \in Runs :
    /\ pc[r] = "loop" /\ cycle[r] = 2
    /\ cur[r].id # 0 /\ ~AllAccept(conditions, cur[r])
    /\ HasSeen(db, cur[r].id)
    /\ checkedAt[cur[r].id] = {<<r, 1>>}

\* The lines at which parsing or enriching one posting raises.
PostingFailureLines == {93, 206, 231, 241}

\* C4: a failure while parsing or enriching one posting does not abort the
\* batch: no cycle ends with an exception from those steps while postings
\* of the batch are still unvisited.
C4_PostingFailureKeepsBatch ==
  \A r \in Runs :
    ~(pc[r] = "raised" /\ exc[r].line \in PostingFailureLines
        /\ listings[r] # <<>>)

UnparsablePrice(listing) ==
  /\ listing.price # None
  /\ Float(Replace(listing.price[1], "$")).exc # NoExc

\* C5: a new posting whose price text is not a number is recorded with the
\* price -1 and goes on to enrichment; no error is raised.
C5_UnparsablePriceGetsSentinel ==
  \A r \in Runs :
    (UnparsablePrice(cur[r]) /\ pc[r] \in {"raised", "enrich", "check"}) =>
      /\ pc[r] # "raised"
      /\ \E row \in db : row.cl_id = cur[r].id /\ row.price = -1

\* C6: when two runs both pass the lookup for the same new identifier, the
\* one whose commit hits the unique constraint treats the posting as seen
\* and continues its batch; the duplicate key is not a fatal error.
C6_DuplicateKeyNotFatal ==
  \A r \in Runs : ~(pc[r] = "raised" /\ exc[r].type = "IntegrityError")

ZeroFragments(where) ==
  where = None \/ ParseLocations(where) = Ok(<<>>)

\* C7: a posting without geotag whose location text yields no fragment gets
\* an unresolved sentinel coordinate from enrichment, which does not raise.
C7_ZeroFragmentsGetSentinel ==
  \A r \in Runs :
    (lastEnrich[r].id # 0 /\ lastEnrich[r].geotag = None
       /\ ZeroFragments(lastEnrich[r].where)) =>
      lastEnrich[r].exc = NoExc

\* C8: for a posting with a geotag, enrichment sets the coordinate to the
\* geotag pair and makes no get_geocode call, whatever the location text.
C8_GeotagVerbatim ==
  \A r \in Runs :
    (lastEnrich[r].id # 0 /\ lastEnrich[r].geotag # None) =>
      /\ lastEnrich[r].exc = NoExc
      /\ lastEnrich[r].coord = lastEnrich[r].geotag
      /\ lastEnrich[r].calls = <<>>

\* A geotagged listing whose location text has two fragments has been
\* enriched.
C8_Witness ==
  /\ lastEnrich[1].id # 0
  /\ lastEnrich[1].geotag = <<47, -122>>
  /\ lastEnrich[1].where = Some(<<"a", ",", "B">>)
  /\ lastEnrich[1].coord = <<47, -122>>

\* The conditions evaluated: all of them when all accept, otherwise those up
\* to and including the first that rejects.
EvaluatedCount(conds, listing) ==
  IF AllAccept(conds, listing) THEN Len(conds)
  ELSE CHOOSE k \in 1..Len(conds) :
         /\ ~Check(conds[k], listing)
         /\ \A j \in 1..(k - 1) : Check(conds[j], listing)

\* C9: a recorded, enriched posting is appended to results iff every
\* registered condition accepts it (always, with no condition); conditions
\* are checked in registration order and none after the first rejection.
C9_AcceptIffAllConditions ==
  [][\A r \in Runs :
       (pc[r] = "check" /\ pc'[r] = "loop") =>
         /\ AllAccept(conditions, cur[r]) =>
              results'[r] = Append(results[r], cur[r])
         /\ ~AllAccept(conditions, cur[r]) => results'[r] = results[r]
         /\ lastCheck'[r].evals =
              [k \in 1..EvaluatedCount(conditions, cur[r]) |-> k]]_vars

\* With two conditions registered, the first rejected the posting and the
\* second was not evaluated.
C9_Witness ==
  \E r \in Runs :
    /\ lastCheck[r].id # 0 /\ Len(lastCheck[r].conds) = 2
    /\ lastCheck[r].evals = <<1>> /\ ~lastCheck[r].good
    /\ Check(lastCheck[r].conds[2], [id |-> lastCheck[r].id])

\* C10: add_condition with None or a value that is not a Condition leaves
\* the list as it was; with a Condition it appends that condition at the
\* end and leaves the earlier entries and their order alone.
C10_AddConditionFrame ==
  addLog.calls > 0 =>
    conditions =
      IF addLog.arg.cls \in {"NoneType", "str"} THEN addLog.before
      ELSE Append(addLog.before, addLog.arg)

\* After a condition was registered, a call with a string left the list of
\* one condition unchanged.
C10_Witness ==
  /\ addLog.calls = 2 /\ addLog.arg.cls = "str"
  /\ Len(addLog.before) = 1 /\ conditions = addLog.before


PoiReturned == lastCall.fn = "find_points_of_interest" /\ lastCall.returned

StationDists ==
  {CoordDistance(lastCall.cfg.stations[k].coords[1],
                 lastCall.cfg.stations[k].coords[2],
                 lastCall.geotag[1], lastCall.geotag[2]) :
     k \in 1..Len(lastCall.cfg.stations)}
MinStationDist == CHOOSE d \in StationDists : \A e \in StationDists : d <= e

\* C11: for a non-empty collection of stations visited in any order, the
\* nearest distance find_points_of_interest reports is the minimum over all
\* stations, the reported station is one at that distance, and near_bart is
\* true exactly when that minimum is below the threshold.
C11_TransitIsNearest ==
  (PoiReturned /\ lastCall.cfg.stations # <<>>) =>
    /\ lastCall.out.bart_dist = Some(MinStationDist)
    /\ lastCall.out.near_bart <=> MinStationDist < lastCall.cfg.maxDist
    /\ lastCall.out.near_bart =>
         \E k \in 1..Len(lastCall.cfg.stations) :
           /\ lastCall.cfg.stations[k].name = lastCall.out.bart
           /\ CoordDistance(lastCall.cfg.stations[k].coords[1],
                            lastCall.cfg.stations[k].coords[2],
                            lastCall.geotag[1], lastCall.geotag[2])
                = MinStationDist

BoxMatches ==
  {k \in 1..Len(lastCall.cfg.boxes) :
     InBox(lastCall.geotag, lastCall.cfg.boxes[k].coords)}
HoodMatches ==
  {k \in 1..Len(lastCall.cfg.hoods) :
     IsSubstring(lastCall.cfg.hoods[k], Lower(lastCall.location))}
First(S) == CHOOSE k \in S : \A j \in S : k <= j
Last(S) == CHOOSE k \in S : \A j \in S : j <= k
BoxedArea ==
  BoxMatches # {} =>
    lastCall.out.area = lastCall.cfg.boxes[Last(BoxMatches)].name

\* C12 as stated: when no box contains the coordinate the area is the first
\* configured neighborhood name occurring in the lower-cased location
\* (empty when none occurs); when a box contains it the area is the last
\* matching box.
C12_FirstHoodWins ==
  PoiReturned =>
    /\ BoxedArea
    /\ BoxMatches = {} =>
         lastCall.out.area =
           IF HoodMatches = {} THEN <<>>
           ELSE lastCall.cfg.hoods[First(HoodMatches)]

\* C12, amended: when no box contains the coordinate the area is the last
\* configured neighborhood name occurring in the lower-cased location
\* (empty when none occurs); when a box contains it the fallback is not
\* used and the area is the last matching box.
C12_LastHoodWins ==
  PoiReturned =>
    /\ BoxedArea
    /\ BoxMatches = {} =>
         lastCall.out.area =
           IF HoodMatches = {} THEN <<>>
           ELSE lastCall.cfg.hoods[Last(HoodMatches)]

C12_Witness ==
  /\ PoiReturned
  /\ BoxMatches = {}
  /\ Cardinality(HoodMatches) = 2
  /\ lastCall.out.area = lastCall.cfg.hoods[Last(HoodMatches)]
  /\ lastCall.out.area # lastCall.cfg.hoods[First(HoodMatches)]

\* C13: in_box is true exactly when the latitude lies strictly between the
\* first corner's and the second corner's latitude and the longitude lies
\* strictly between the second corner's and the first corner's longitude; a
\* coordinate on an edge or a corner is outside.
C13_InBoxStrict ==
  (lastCall.fn = "in_box" /\ lastCall.returned) =>
    LET lat == lastCall.coords[1]
        lon == lastCall.coords[2]
        lo == lastCall.box[1]
        hi == lastCall.box[2]
    IN /\ lastCall.out <=>
            (lo[1] < lat /\ lat < hi[1] /\ hi[2] < lon /\ lon < lo[2])
       /\ (lat \in {lo[1], hi[1]} \/ lon \in {lo[2], hi[2]}) => ~lastCall.out

C13_Witness ==
  /\ lastCall.fn = "in_box" /\ lastCall.returned
  /\ lastCall.box = <<<<0, 2>>, <<2, 0>>>>
  /\ lastCall.coords = <<0, 1>>
  /\ ~lastCall.out


\* The fragments of a location text: the pieces between separators,
\* trimmed, the empty ones dropped, lower-cased, in order.
RECURSIVE LoweredFragments(_)
LoweredFragments(raw) ==
  IF raw = <<>> THEN <<>>
  ELSE IF Strip(Head(raw)) = <<>> THEN LoweredFragments(Tail(raw))
  ELSE <<Lower(Strip(Head(raw)))>> \o LoweredFragments(Tail(raw))

\* C14: for a posting without geotag whose location text has n >= 1
\* fragments, enrichment calls get_geocode once per fragment, in order, and
\* sets the coordinate to the mean of the n answers, (0, 0) answers included.
C14_FragmentsGeocodedAndAveraged ==
  \A r \in Runs :
    (lastEnrich[r].id # 0 /\ lastEnrich[r].geotag = None
       /\ lastEnrich[r].where # None) =>
      LET fragments == LoweredFragments(ReSplit(lastEnrich[r].where[1]))
          n == Len(fragments)
          sum == SumGeocodes(fragments)
      IN n >= 1 =>
           /\ lastEnrich[r].exc = NoExc
           /\ lastEnrich[r].calls = fragments
           /\ lastEnrich[r].coord = <<sum[1] \div n, sum[2] \div n>>


\* The posting was recorded by run r in its current cycle, enrichment of it
\* succeeds and every condition accepts it.
AcceptedNow(r, p) ==
  /\ Here(r) \in recordedAt[p.id]
  /\ UpdateGeographicInformation(p).exc = NoExc
  /\ AllAccept(conditions, p)

\* C15: when a cycle is over, every posting recorded and accepted in it has
\* been handed to post_listing_to_slack in that cycle, exactly once.
C15_AcceptedAreNotified ==
  \A r \in Runs : \A p \in source :
    (pc[r] = "idle" /\ AcceptedNow(r, p)) => notified[p.id] = <<Here(r)>>

\* C16: the listings table only grows, over completed and aborted cycles
\* alike: no step removes or changes a row, and no identifier is held by two
\* rows or recorded twice.
C16_StoreAppendOnly ==
  [][/\ db \subseteq db'
     /\ \A i \in Ids : recordedAt[i] \subseteq recordedAt'[i]
     /\ \A i \in Ids : Cardinality(recordedAt'[i]) <= 1
     /\ \A x, y \in db' : x.cl_id = y.cl_id => x = y]_vars

\* A second cycle, begun after a cycle that recorded a posting and aborted
\* before notifying it, has recorded another posting.
C16_Witness ==
  /\ cycle[1] = 2
  /\ \E i, j \in Ids :
       /\ recordedAt[i] = {<<1, 1>>} /\ notified[i] = <<>>
       /\ \E p \in source : p.id = i /\ AllAccept(conditions, p)
                              /\ UpdateGeographicInformation(p).exc = NoExc
       /\ recordedAt[j] = {<<1, 2>>}
       /\ {i, j} \subseteq {row.cl_id : row \in db}

\* C17: a cycle fails only on account of its own inputs: no cycle is made to
\* fail by what an earlier failed cycle left behind.
C17_FailureLeavesNoTrace ==
  \A r \in Runs :
    pc[r] = "raised" => exc[r].type # "InvalidRequestError"

\* The cycle that recorded the posting is over.
CycleOver(at) == cycle[at[1]] > at[2] \/ pc[at[1]] \in {"idle", "exited"}

\* C18: a posting that was recorded in a cycle and not notified by the end
\* of that cycle, however the cycle ended, is never notified afterwards.
C18_UnnotifiedStayUnnotified ==
  [][\A i \in Ids :
       (recordedAt[i] # {} /\ notified[i] = <<>>
          /\ \A at \in recordedAt[i] : CycleOver(at)) =>
         notified'[i] = <<>>]_vars

\* A posting that was recorded and accepted in the first cycle, which
\* aborted before notifying it, is looked up in the second cycle and
\* skipped.
C18_Witness ==
  /\ cycle[1] = 2
  /\ pc[1] = "loop"
  /\ cur[1].id # 0
  /\ recordedAt[cur[1].id] = {<<1, 1>>}
  /\ notified[cur[1].id] = <<>>
  /\ \E p \in source : p.id = cur[1].id /\ AllAccept(conditions, p)
                         /\ UpdateGeographicInformation(p).exc = NoExc

====
